---- MODULE Spec2Model ----
(***************************************************************************)
(* Model of record-gui.py: the StreamRecorder objects (one per start       *)
(* request), their two daemon threads (_monitor_output, _check_file_save), *)
(* the external streamlink process and its output file, and the MainWindow *)
(* handlers (start_recording, stop_recording, the per-row stop button,     *)
(* closeEvent) that run on the GUI thread.                                 *)
(*                                                                         *)
(* Strings that the code inspects character by character (the file name)   *)
(* are sequences of one-character strings.  output_path is modelled by the *)
(* file name alone: every recorder is created with the same directory.     *)
(***************************************************************************)
EXTENDS Integers, Sequences, FiniteSets, TLC

\* ---------------------------------------------------------------- bounds
\* Scenario "one session" (Spec): one recorder, followed without limit of steps;
\* the file grows up to MaxSize.
OneRecorder == 1
MaxSize == 2
\* the watcher's samples are counted up to SampleCap
SampleCap == 2
\* Scenario "several sessions" (SpecMulti): MaxRecorders recorders, of which
\* MaxSpawned get a process (for the others the metadata query or Popen fails),
\* followed for MaxSteps steps of the threads, the processes and the file system.
MaxRecorders == 3
MaxSpawned == 2
MaxSteps == 5
MultiSize == 1
\* Scenario "file name" (SpecName): longest author and longest title drawn.
MaxNameLen == 2
MaxTitleLen == 1

\* ------------------------------------------------------ program constants
\* `if no_growth_count >= 5`
StaleThreshold == 5

\* a key that the metadata dict does not have (no one-character string)
Missing == <<"(missing)">>
URLs == {"u1", "u2"}
RecIds == 1..MaxRecorders

\* ------------------------------------------------------------- file name
Unknown == <<"u","n","k","n","o","w","n">>
Untitled == <<"u","n","t","i","t","l","e","d">>
\* datetime.now().strftime("%Y-%m-%d %H:%M"), the clock reading 2024-01-01 10:00
Now == <<"2","0","2","4","-","0","1","-","0","1"," ","1","0",":","0","0">>

\* the character class of re.sub(r'[<>:"/\\|?*]', '_', filename)
Reserved == {"<", ">", ":", "\"", "/", "\\", "|", "?", "*"}

\* metadata.get('metadata', {}).get('author', 'unknown') / .get('title', 'untitled')
AuthorOf(m) == IF m.author = Missing THEN Unknown ELSE m.author
TitleOf(m) == IF m.title = Missing THEN Untitled ELSE m.title

\* f"[{author}] {timestamp} {title}.ts"
FormatFilename(author, timestamp, title) ==
    <<"[">> \o author \o <<"]", " ">> \o timestamp \o <<" ">> \o title \o <<".", "t", "s">>

\* (faulty variant: the colon is missing from the character class)
SanitizeKeepsColon(name) ==
    [i \in 1..Len(name) |-> IF name[i] \in Reserved \ {":"} THEN "_" ELSE name[i]]
\* re.sub(r'[<>:"/\\|?*]', '_', filename): applied to the whole file name
Sanitize(name) == [i \in 1..Len(name) |-> IF name[i] \in Reserved THEN "_" ELSE name[i]]

\* lines 60-68 of get_metadata
DeriveFilename(m, timestamp) == Sanitize(FormatFilename(AuthorOf(m), timestamp, TitleOf(m)))

\* The metadata the backend answers with in the scenarios with sessions.
MetaAB == [author |-> <<"A", "/", "B">>, title |-> <<"T", ":", "1">>]
MetaChoices == {MetaAB}
\* json.loads gave {} : a dict without 'metadata', and falsy
MetaEmpty == [author |-> Missing, title |-> Missing]
Paths == {DeriveFilename(m, Now) : m \in MetaChoices}

\* The lines the process writes, each the set of the tokens it contains.
Lines == {{"error", "stream"}}


\* ------------------------------------------------------------------ state
VARIABLES
    lim,            \* the scenario's limits (fixed by Init; steps = 0: no limit)
    recorders,      \* MainWindow.recorders: url -> recorder id (0: no entry)
    regOrder,       \* the keys of MainWindow.recorders in insertion order
    created,        \* StreamRecorder objects constructed so far (ids 1..created)
    startEnabled,   \* ui.startButton.isEnabled()
    stopEnabled,    \* ui.stopButton.isEnabled()
    savePath,       \* ui.savePathInput.text(): "" or "dir"
    gui,            \* position of the GUI thread
    report,         \* the last handler called, and what it told its caller
    url,            \* StreamRecorder.url
    output_path,    \* StreamRecorder.output_path: <<>> is None
    metadata,       \* StreamRecorder.metadata: <<>> is None
    is_running,     \* StreamRecorder.is_running
    process,        \* StreamRecorder.process: "none" (None), "alive", "exited"
    signals,        \* signals sent to the process: subset of {"TERM", "KILL"}
    pipe,           \* unread line in the process's stdout pipe: <<>> or <<line>>
    mon,            \* position of the _monitor_output thread
    watch,          \* position and locals of the _check_file_save thread
    files,          \* file system: path -> size, -1 when the file does not exist
    steps,          \* steps of threads, processes and file system counted so far
    hist,           \* per recorder: what it has emitted and observed so far
    nameIn,         \* scenario "filename": the metadata drawn
    nameOut         \* scenario "filename": the file name derived from it

vars == <<lim, recorders, regOrder, created, startEnabled, stopEnabled, savePath, gui,
          report, url, output_path, metadata, is_running, process, signals, pipe, mon,
          watch, files, steps, hist, nameIn, nameOut>>

guiVars == <<recorders, regOrder, created, startEnabled, stopEnabled, savePath, gui, report>>
recVars == <<url, output_path, metadata, is_running, process, signals, mon, watch>>
nameVars == <<nameIn, nameOut>>

\* a handler call: the handler, whether its url had an entry in self.recorders
\* when it was called, and what it reported: "none", or the warning box of line 321
Report(op, known, text) == [op |-> op, known |-> known, text |-> text]
GuiIdle == [pc |-> "idle", r |-> 0, caller |-> "none", idx |-> 0]
\* locals of _check_file_save before line 181 has run
WatchInit(pc) == [pc |-> pc, last_size |-> 0, no_growth_count |-> 0, initial_check |-> TRUE]
HistInit ==
    [ outcome |-> "none",       \* how the metadata query ended
      lastStatus |-> "none",    \* the last status_changed emitted
      lastLog |-> "none",       \* the last log_message emitted
      metaReceived |-> FALSE,   \* metadata_received was emitted
      metaFirst |-> TRUE,       \* no spawn and no size_changed came before it
      sizeEmitted |-> FALSE,    \* size_changed was emitted,
      lastEmit |-> 0,           \*   last with this size,
      sizeMono |-> TRUE,        \*   and never with a size below the one before
      samples |-> 0,            \* samples taken by the watcher (counted to SampleCap)
      lastSample |-> 0,         \*   the last one
      equalRun |-> 0,           \*   the length of the run of equal samples it ends
      allInc |-> TRUE,          \*   each was greater than the one before
      stallWarn |-> 0,          \* stall warnings emitted
      finalCheck |-> "none",    \* result of the final check of the file
      completed |-> FALSE,      \* the status "completed" was emitted
      stopped |-> "no",         \* a stop() that found the process alive: pending, returned
      wasRecording |-> FALSE ]  \* the process was spawned

\* StreamRecorder.__init__ for every id, MainWindow.__init__
InitWith(l, inputs) ==
    /\ lim = l
    /\ nameIn \in inputs
    /\ recorders = [u \in URLs |-> 0]
    /\ regOrder = <<>>
    /\ created = 0
    /\ startEnabled = TRUE
    /\ stopEnabled \in BOOLEAN
    /\ savePath \in {"", "dir"}
    /\ gui = GuiIdle
    /\ report = Report("none", FALSE, "none")
    /\ url = [r \in RecIds |-> ""]
    /\ output_path = [r \in RecIds |-> <<>>]
    /\ metadata = [r \in RecIds |-> <<>>]
    /\ is_running = [r \in RecIds |-> FALSE]
    /\ process = [r \in RecIds |-> "none"]
    /\ signals = [r \in RecIds |-> {}]
    /\ pipe = [r \in RecIds |-> <<>>]
    /\ mon = [r \in RecIds |-> "none"]
    /\ watch = [r \in RecIds |-> WatchInit("none")]
    /\ files = [p \in Paths |-> -1]
    /\ steps = 0
    /\ hist = [r \in RecIds |-> HistInit]
    /\ nameOut = <<>>

\* ---------------------------------------------------------------- signals
\* self.status_changed.emit(self.url, ...)
EmitStatus(h, kind) == [h EXCEPT !.lastStatus = kind]
\* self.log_message.emit(...)
EmitLog(h, kind) == [h EXCEPT !.lastLog = kind]
\* self.size_changed.emit(self.url, current_size)
EmitSize(h, size) ==
    [h EXCEPT !.sizeEmitted = TRUE, !.lastEmit = size,
              !.sizeMono = @ /\ (~h.sizeEmitted \/ size >= h.lastEmit),
              !.metaFirst = @ /\ h.metaReceived]
\* self.metadata_received.emit(metadata)
EmitMetadata(h) == [h EXCEPT !.metaReceived = TRUE]

\* ------------------------------------------------- StreamRecorder.start
\* What subprocess.run / json.loads of get_metadata can give:
\*   "ok"        returncode 0 and a JSON dict with a 'metadata' dict (truthy)
\*   "empty"     returncode 0 and the JSON dict {} (falsy)
\*   "badshape"  returncode 0 and a JSON dict whose 'metadata' is no dict:
\*               .get raises, caught by `except Exception`
\*   "badjson"   returncode 0 and json.JSONDecodeError
\*   "nonzero"   returncode != 0
\*   "exception" subprocess.run raises
MetaOutcomes == {"ok", "empty", "badshape", "badjson", "nonzero", "exception"}
\* the status and log message of each failing branch (lines 77-88)
MetaErrorOf(mo) ==
    CASE mo = "badjson" -> "meta_parse_failed"
      [] mo = "nonzero" -> "meta_fetch_failed"
      [] OTHER -> "meta_error"

\* get_metadata reached lines 57-76: the JSON parsed and the file name was built
MetaParsed(mo) == mo \in {"ok", "empty"}
\* `if not self.get_metadata(): return` passes: the returned dict is truthy
MetaTruthy(mo) == mo = "ok"

\* get_metadata (lines 45-89): the recorder's fields and signals after it
MetadataAfter(mo, m) ==
    IF mo = "ok" THEN <<m>> ELSE IF mo \in {"empty", "badshape"} THEN <<MetaEmpty>> ELSE <<>>
OutputPathAfter(mo, m) ==
    IF mo = "ok" THEN DeriveFilename(m, Now)
    ELSE IF mo = "empty" THEN DeriveFilename(MetaEmpty, Now) ELSE <<>>
\* (faulty variant: line 75 is missing)
HistAfterMetadataNoSignal(h, mo) ==
    IF MetaParsed(mo)
    THEN EmitLog(h, "filename_set")
    ELSE EmitLog(EmitStatus(h, MetaErrorOf(mo)), MetaErrorOf(mo))
HistAfterMetadata(h, mo) ==
    IF MetaParsed(mo)
    THEN EmitMetadata(EmitLog(h, "filename_set"))
    ELSE EmitLog(EmitStatus(h, MetaErrorOf(mo)), MetaErrorOf(mo))

\* (faulty variant: the result of get_metadata is not looked at)
SpawnsAlways(mo) == TRUE
\* start() lines 99-125 spawn the process: metadata was truthy
Spawns(mo) == MetaTruthy(mo)

\* StreamRecorder.start (lines 91-125) of the fresh recorder r; so = "ok" when
\* subprocess.Popen succeeds, "fail" when it raises.
RecorderStart(r, mo, m, so) ==
    LET h1 == HistAfterMetadata([HistInit EXCEPT !.outcome = mo], mo)
        h2 == EmitStatus(h1, "starting")
        h3 == IF so = "ok"
              THEN [h2 EXCEPT !.wasRecording = TRUE, !.metaFirst = @ /\ h2.metaReceived]
              ELSE EmitStatus(h2, "spawn_error")
    IN  /\ metadata' = [metadata EXCEPT ![r] = MetadataAfter(mo, m)]
        /\ output_path' = [output_path EXCEPT ![r] = OutputPathAfter(mo, m)]
        /\ IF Spawns(mo)
           THEN /\ is_running' = [is_running EXCEPT ![r] = (so = "ok")]
                /\ process' = [process EXCEPT ![r] = IF so = "ok" THEN "alive" ELSE "none"]
                /\ mon' = [mon EXCEPT ![r] = IF so = "ok" THEN "loop" ELSE "none"]
                /\ watch' = [watch EXCEPT ![r] = WatchInit(IF so = "ok" THEN "sleep" ELSE "none")]
                /\ hist' = [hist EXCEPT ![r] = h3]
           ELSE /\ hist' = [hist EXCEPT ![r] = h1]
                /\ UNCHANGED <<is_running, process, mon, watch>>

\* ------------------------------------------- MainWindow.start_recording
\* `self.recorders[url] = recorder`
Register(u, r) == [recorders EXCEPT ![u] = r]

\* start_recording (lines 318-367): u is urlInput.text().strip(), dlg what the
\* directory dialog returns when savePathInput is empty; mo, m and so are what
\* the metadata query and Popen give to the new recorder's start().
StartRecording(u, dlg) ==
    /\ gui.pc = "idle"
    /\ startEnabled
    /\ IF u = ""
       THEN \* lines 320-322
            /\ report' = Report("start_recording", FALSE, "warning_no_url")
            /\ UNCHANGED <<recorders, regOrder, created, startEnabled, stopEnabled, savePath,
                           gui, recVars, hist>>
       ELSE IF savePath = "" /\ dlg = ""
       THEN \* lines 326-329
            /\ report' = Report("start_recording", recorders[u] # 0, "none")
            /\ UNCHANGED <<recorders, regOrder, created, startEnabled, stopEnabled, savePath,
                           gui, recVars, hist>>
       ELSE \* lines 330-367
            /\ created < lim.recs
            /\ \E mo \in lim.outcomes, m \in lim.metas, so \in lim.popen :
                 LET r == created + 1
                 IN  /\ (Spawns(mo) /\ so = "ok") =>
                           Cardinality({x \in RecIds : process[x] # "none"}) < lim.spawned
                     /\ created' = r
                     /\ savePath' = IF savePath = "" THEN dlg ELSE savePath
                     /\ url' = [url EXCEPT ![r] = u]
                     /\ recorders' = Register(u, r)
                     /\ regOrder' = IF recorders[u] = 0 THEN Append(regOrder, u) ELSE regOrder
                     /\ RecorderStart(r, mo, m, so)
                     /\ startEnabled' = FALSE
                     /\ stopEnabled' = TRUE
                     /\ report' = Report("start_recording", recorders[u] # 0, "none")
                     /\ UNCHANGED <<gui, signals>>
    /\ UNCHANGED <<lim, pipe, files, steps, nameVars>>

\* --------------------------------------------------- StreamRecorder.stop
\* (faulty variant: the guard does not look at is_running)
CanStopIgnoresFlag(r) == process[r] # "none"
\* `if self.process and self.is_running:` (line 128)
CanStop(r) == process[r] # "none" /\ is_running[r]

\* bookkeeping of a stop() call on r: did it find the process alive
StopCalled(h, r) == IF process[r] = "alive" THEN [h EXCEPT !.stopped = "pending"] ELSE h
StopReturnedHist(h) == IF h.stopped = "pending" THEN [h EXCEPT !.stopped = "returned"] ELSE h

\* the final check of the recording file (lines 141-150)
FinalCheckOf(r) ==
    LET size == files[output_path[r]]
    IN  IF size = -1 THEN "missing" ELSE IF size > 0 THEN "size" ELSE "empty"
FinalLog(h, r) ==
    LET c == FinalCheckOf(r)
    IN  [EmitLog(h, IF c = "size" THEN "final_size"
                    ELSE IF c = "empty" THEN "warn_empty" ELSE "warn_not_created")
            EXCEPT !.finalCheck = c]

\* what the handler that called stop() does once stop() has returned
ReturnTo(caller, idx) ==
    CASE caller = "stop_recording" ->
            \* lines 373-374
            /\ startEnabled' = TRUE
            /\ stopEnabled' = FALSE
            /\ gui' = GuiIdle
      [] caller = "row" ->
            \* stop_this_recording, line 362 (the table cell is not modelled)
            /\ gui' = GuiIdle
            /\ UNCHANGED <<startEnabled, stopEnabled>>
      [] OTHER ->
            \* closeEvent: the loop goes on with the next recorder
            /\ gui' = [pc |-> "close", r |-> 0, caller |-> "close", idx |-> idx + 1]
            /\ UNCHANGED <<startEnabled, stopEnabled>>

\* (faulty variant: terminate() reaches the processes of all recorders)
StopCallSignalsAll(r, caller, idx) ==
    IF CanStop(r)
    THEN /\ signals' = [x \in RecIds |->
                          IF process[x] = "alive" THEN signals[x] \cup {"TERM"} ELSE signals[x]]
         /\ gui' = [pc |-> "wait", r |-> r, caller |-> caller, idx |-> idx]
         /\ hist' = [hist EXCEPT ![r] = StopCalled(@, r)]
         /\ UNCHANGED <<startEnabled, stopEnabled>>
    ELSE /\ ReturnTo(caller, idx)
         /\ hist' = [hist EXCEPT ![r] = StopReturnedHist(StopCalled(@, r))]
         /\ UNCHANGED signals
\* stop() on r, called by `caller`: lines 128-132 up to the wait when the guard
\* holds, else the immediate return.
StopCall(r, caller, idx) ==
    IF CanStop(r)
    THEN /\ signals' = [signals EXCEPT ![r] = IF process[r] = "alive" THEN @ \cup {"TERM"} ELSE @]
         /\ gui' = [pc |-> "wait", r |-> r, caller |-> caller, idx |-> idx]
         /\ hist' = [hist EXCEPT ![r] = StopCalled(@, r)]
         /\ UNCHANGED <<startEnabled, stopEnabled>>
    ELSE /\ ReturnTo(caller, idx)
         /\ hist' = [hist EXCEPT ![r] = StopReturnedHist(StopCalled(@, r))]
         /\ UNCHANGED signals

\* lines 138-150, then the return into the calling handler
StopFinish(r) ==
    /\ is_running' = [is_running EXCEPT ![r] = FALSE]
    /\ hist' = [hist EXCEPT ![r] = StopReturnedHist(FinalLog(EmitStatus(@, "stopped"), r))]
    /\ ReturnTo(gui.caller, gui.idx)

\* process.wait(timeout=5) or process.wait() returns: the process has exited
StopWaitReturns ==
    /\ gui.pc \in {"wait", "killwait"}
    /\ process[gui.r] = "exited"
    /\ StopFinish(gui.r)
    /\ UNCHANGED <<lim, recorders, regOrder, created, savePath, report, url, output_path,
                   metadata, process, signals, pipe, mon, watch, files, steps, nameVars>>

\* (faulty variant: the timeout is not followed by kill() and wait())
StopTimeoutGivesUp ==
    /\ gui.pc = "wait"
    /\ process[gui.r] = "alive"
    /\ StopFinish(gui.r)
    /\ UNCHANGED <<lim, recorders, regOrder, created, savePath, report, url, output_path,
                   metadata, process, signals, pipe, mon, watch, files, steps, nameVars>>
\* subprocess.TimeoutExpired after 5 s: process.kill(), then process.wait() (133-136)
StopTimeout ==
    /\ gui.pc = "wait"
    /\ process[gui.r] = "alive"
    /\ signals' = [signals EXCEPT ![gui.r] = @ \cup {"KILL"}]
    /\ gui' = [gui EXCEPT !.pc = "killwait"]
    /\ UNCHANGED <<lim, recorders, regOrder, created, startEnabled, stopEnabled, savePath,
                   report, url, output_path, metadata, is_running, process, pipe, mon, watch,
                   files, steps, hist, nameVars>>

\* -------------------------------------------- MainWindow.stop_recording
\* (faulty variant: lines 373-374 outside the `if`)
StopUnknownTogglesButtons(u) ==
    /\ startEnabled' = TRUE
    /\ stopEnabled' = FALSE
    /\ UNCHANGED <<recorders, gui, signals, hist>>
\* `url in self.recorders`
Registered(u) == u \in URLs /\ recorders[u] # 0

\* the branch of stop_recording for a url that is not in self.recorders:
\* the `if` of line 371 has no else
StopUnknown(u) ==
    UNCHANGED <<recorders, startEnabled, stopEnabled, gui, signals, hist>>

\* stop_recording (lines 369-374): u is urlInput.text().strip()
StopRecording(u) ==
    /\ gui.pc = "idle"
    /\ stopEnabled
    /\ report' = Report("stop_recording", Registered(u), "none")
    /\ IF Registered(u)
       THEN StopCall(recorders[u], "stop_recording", 0) /\ UNCHANGED recorders
       ELSE StopUnknown(u)
    /\ UNCHANGED <<lim, regOrder, created, savePath, url, output_path, metadata, is_running,
                   process, pipe, mon, watch, files, steps, nameVars>>

\* stop_this_recording (lines 360-362): the stop button of recorder r's table row
StopThisRecording(r) ==
    /\ gui.pc = "idle"
    /\ r \in 1..created
    /\ StopCall(r, "row", 0)
    /\ report' = Report("stop_this_recording", TRUE, "none")
    /\ UNCHANGED <<lim, recorders, regOrder, created, savePath, url, output_path, metadata,
                   is_running, process, pipe, mon, watch, files, steps, nameVars>>

\* ------------------------------------------------ MainWindow.closeEvent
\* positions of self.recorders.values() from idx on whose recorder is_running
RunningFrom(idx) == {i \in idx..Len(regOrder) : is_running[recorders[regOrder[i]]]}
Min(S) == CHOOSE x \in S : \A y \in S : x <= y

\* the loop of lines 421-423 from position idx up to the next stop() that waits,
\* or to event.accept()
CloseLoop(idx) ==
    IF RunningFrom(idx) = {}
    THEN /\ gui' = [pc |-> "closed", r |-> 0, caller |-> "none", idx |-> 0]
         /\ UNCHANGED <<startEnabled, stopEnabled, signals, hist>>
    ELSE LET i == Min(RunningFrom(idx))
         IN  StopCall(recorders[regOrder[i]], "close", i)

\* closeEvent is delivered (line 419)
CloseEvent ==
    /\ gui.pc = "idle"
    /\ CloseLoop(1)
    /\ report' = Report("closeEvent", FALSE, "none")
    /\ UNCHANGED <<lim, recorders, regOrder, created, savePath, url, output_path, metadata,
                   is_running, process, pipe, mon, watch, files, steps, nameVars>>

\* closeEvent goes on after a stop() returned
CloseNext ==
    /\ gui.pc = "close"
    /\ CloseLoop(gui.idx)
    /\ UNCHANGED <<lim, recorders, regOrder, created, savePath, report, url, output_path,
                   metadata, is_running, process, pipe, mon, watch, files, steps, nameVars>>

\* a step of a thread, of a process or of the file system, within the scenario's limit
Tick ==
    /\ lim.steps = 0 \/ steps < lim.steps
    /\ steps' = IF lim.steps = 0 THEN steps ELSE steps + 1

\* ------------------------------------------ StreamRecorder._monitor_output
\* the status the classification of lines 158-163 emits for a line
LineStatus(line) ==
    IF "error" \in line THEN "line_error" ELSE IF "stream" \in line THEN "line" ELSE "none"

\* `while self.is_running:` (line 153)
MonitorLoop(r) ==
    /\ mon[r] = "loop"
    /\ Tick
    /\ mon' = [mon EXCEPT ![r] = IF is_running[r] THEN "read" ELSE "post"]
    /\ UNCHANGED <<lim, guiVars, url, output_path, metadata, is_running, process, signals,
                   pipe, watch, files, hist, nameVars>>

\* (faulty variant: line 155 does not ask whether the process has exited)
MonitorReadBreaksOnSilence(r) ==
    /\ mon[r] = "read"
    /\ Tick
    /\ IF pipe[r] # <<>>
       THEN /\ pipe' = [pipe EXCEPT ![r] = <<>>]
            /\ mon' = [mon EXCEPT ![r] = "loop"]
            /\ hist' = [hist EXCEPT ![r] =
                          IF LineStatus(pipe[r][1]) = "none" THEN @
                          ELSE EmitStatus(@, LineStatus(pipe[r][1]))]
       ELSE /\ mon' = [mon EXCEPT ![r] = "post"]
            /\ UNCHANGED <<pipe, hist>>
    /\ UNCHANGED <<lim, guiVars, url, output_path, metadata, is_running, process, signals,
                   watch, files, nameVars>>
\* (faulty variant: readline() never returns at end of stream)
MonitorReadBlocksAtEof(r) ==
    /\ mon[r] = "read"
    /\ Tick
    /\ pipe[r] # <<>>
    /\ pipe' = [pipe EXCEPT ![r] = <<>>]
    /\ mon' = [mon EXCEPT ![r] = "loop"]
    /\ hist' = [hist EXCEPT ![r] =
                  IF LineStatus(pipe[r][1]) = "none" THEN @
                  ELSE EmitStatus(@, LineStatus(pipe[r][1]))]
    /\ UNCHANGED <<lim, guiVars, url, output_path, metadata, is_running, process, signals,
                   watch, files, nameVars>>
\* readline() returns (line 154): a line of the pipe, classified (158-166), or ''
\* at end of stream with the process exited (155-156). It blocks otherwise.
MonitorRead(r) ==
    /\ mon[r] = "read"
    /\ Tick
    /\ IF pipe[r] # <<>>
       THEN /\ pipe' = [pipe EXCEPT ![r] = <<>>]
            /\ mon' = [mon EXCEPT ![r] = "loop"]
            /\ hist' = [hist EXCEPT ![r] =
                          IF LineStatus(pipe[r][1]) = "none" THEN @
                          ELSE EmitStatus(@, LineStatus(pipe[r][1]))]
       ELSE /\ process[r] = "exited"
            /\ mon' = [mon EXCEPT ![r] = "post"]
            /\ UNCHANGED <<pipe, hist>>
    /\ UNCHANGED <<lim, guiVars, url, output_path, metadata, is_running, process, signals,
                   watch, files, nameVars>>

\* `if self.is_running:` (line 168)
MonitorPost(r) ==
    /\ mon[r] = "post"
    /\ Tick
    /\ mon' = [mon EXCEPT ![r] = IF is_running[r] THEN "emit" ELSE "done"]
    /\ UNCHANGED <<lim, guiVars, url, output_path, metadata, is_running, process, signals,
                   pipe, watch, files, hist, nameVars>>

\* (faulty variant: line 170 is missing)
MonitorCompleteSilent(r) ==
    /\ mon[r] = "emit"
    /\ Tick
    /\ is_running' = [is_running EXCEPT ![r] = FALSE]
    /\ mon' = [mon EXCEPT ![r] = "done"]
    /\ UNCHANGED <<lim, guiVars, url, output_path, metadata, process, signals, pipe, watch,
                   files, hist, nameVars>>
\* lines 169-170
MonitorComplete(r) ==
    /\ mon[r] = "emit"
    /\ Tick
    /\ is_running' = [is_running EXCEPT ![r] = FALSE]
    /\ hist' = [hist EXCEPT ![r] = [EmitStatus(@, "completed") EXCEPT !.completed = TRUE]]
    /\ mon' = [mon EXCEPT ![r] = "done"]
    /\ UNCHANGED <<lim, guiVars, url, output_path, metadata, process, signals, pipe, watch,
                   files, nameVars>>

\* ------------------------------------------ StreamRecorder._check_file_save
\* (faulty variant: the watcher gives the session up when the file is missing)
WatchStartStopsSession(r) ==
    /\ watch[r].pc = "sleep"
    /\ Tick
    /\ IF files[output_path[r]] = -1
       THEN /\ watch' = [watch EXCEPT ![r].pc = "done"]
            /\ is_running' = [is_running EXCEPT ![r] = FALSE]
            /\ hist' = [hist EXCEPT ![r] =
                          EmitLog(EmitStatus(@, "warn_not_created"), "warn_not_created")]
       ELSE /\ watch' = [watch EXCEPT ![r] = WatchInit("loop")]
            /\ UNCHANGED <<hist, is_running>>
    /\ UNCHANGED <<lim, guiVars, url, output_path, metadata, process, signals,
                   pipe, mon, files, nameVars>>
\* after time.sleep(2): lines 176-183
WatchStart(r) ==
    /\ watch[r].pc = "sleep"
    /\ Tick
    /\ IF files[output_path[r]] = -1
       THEN /\ watch' = [watch EXCEPT ![r].pc = "done"]
            /\ hist' = [hist EXCEPT ![r] =
                          EmitLog(EmitStatus(@, "warn_not_created"), "warn_not_created")]
       ELSE /\ watch' = [watch EXCEPT ![r] = WatchInit("loop")]
            /\ UNCHANGED hist
    /\ UNCHANGED <<lim, guiVars, url, output_path, metadata, is_running, process, signals,
                   pipe, mon, files, nameVars>>

\* `while self.is_running:` (line 185), after the time.sleep(1) of the last pass
WatchLoop(r) ==
    /\ watch[r].pc = "loop"
    /\ Tick
    /\ watch' = [watch EXCEPT ![r].pc = IF is_running[r] THEN "body" ELSE "done"]
    /\ UNCHANGED <<lim, guiVars, url, output_path, metadata, is_running, process, signals,
                   pipe, mon, files, hist, nameVars>>

\* (faulty variant: a smaller size counts as no growth)
NoGrowthOrShrink(current_size, last_size) == current_size <= last_size
\* `if current_size == last_size:` (line 202)
NoGrowth(current_size, last_size) == current_size = last_size
\* (faulty variants: `>` for `>=`; the threshold left out)
StalledStrict(no_growth_count) == no_growth_count > StaleThreshold
StalledAtOnce(no_growth_count) == no_growth_count > 0
\* `if no_growth_count >= 5:` (line 204)
Stalled(no_growth_count) == no_growth_count >= StaleThreshold

\* the samples the watcher has taken: how many, the last one, the length of the
\* run of equal samples it ends, and whether each was greater than the one before
Sampled(h, size) ==
    [h EXCEPT !.samples = IF @ < SampleCap THEN @ + 1 ELSE @,
              !.lastSample = size,
              !.equalRun = IF h.samples > 0 /\ size = h.lastSample
                           THEN (IF @ < StaleThreshold + 2 THEN @ + 1 ELSE @) ELSE 1,
              !.allInc = @ /\ (h.samples = 0 \/ size > h.lastSample)]

\* one pass of the loop body, lines 186-213
WatchPoll(r) ==
    /\ watch[r].pc = "body"
    /\ Tick
    /\ LET w == watch[r]
           current_size == files[output_path[r]]
           count == IF NoGrowth(current_size, w.last_size) THEN w.no_growth_count + 1 ELSE 0
           h0 == Sampled(hist[r], current_size)
           h1 == IF ~w.initial_check THEN h0
                 ELSE IF current_size > 0 THEN EmitLog(h0, "file_created")
                 ELSE EmitLog(h0, "warn_zero_size")
       IN  IF current_size = -1
           THEN \* lines 186-189
                /\ watch' = [watch EXCEPT ![r].pc = "done"]
                /\ hist' = [hist EXCEPT ![r] = [EmitLog(EmitStatus(@, "warn_deleted"), "warn_deleted")
                                                   EXCEPT !.allInc = FALSE]]
           ELSE IF NoGrowth(current_size, w.last_size) /\ Stalled(count)
           THEN \* lines 203-207
                /\ watch' = [watch EXCEPT ![r] =
                               [w EXCEPT !.pc = "done", !.no_growth_count = count,
                                         !.initial_check = @ /\ current_size = 0]]
                /\ hist' = [hist EXCEPT ![r] =
                              [EmitLog(EmitStatus(h1, "warn_stall"), "warn_stall")
                                 EXCEPT !.stallWarn = IF @ < 2 THEN @ + 1 ELSE @]]
           ELSE \* lines 209-214
                /\ watch' = [watch EXCEPT ![r] =
                               [pc |-> "loop", last_size |-> current_size,
                                no_growth_count |-> count,
                                initial_check |-> w.initial_check /\ current_size = 0]]
                /\ hist' = [hist EXCEPT ![r] = EmitSize(h1, current_size)]
    /\ UNCHANGED <<lim, guiVars, url, output_path, metadata, is_running, process, signals,
                   pipe, mon, files, nameVars>>

\* ------------------------------------------------------------ environment
\* the recording process exits: by itself, or because of a signal
ProcessExit(r) ==
    /\ process[r] = "alive"
    /\ Tick
    /\ process' = [process EXCEPT ![r] = "exited"]
    /\ UNCHANGED <<lim, guiVars, url, output_path, metadata, is_running, signals, pipe, mon,
                   watch, files, hist, nameVars>>

\* the recording process writes a line to its stdout
ProcessWrite(r, line) ==
    /\ process[r] = "alive"
    /\ Tick
    /\ pipe[r] = <<>>
    /\ pipe' = [pipe EXCEPT ![r] = <<line>>]
    /\ UNCHANGED <<lim, guiVars, recVars, files, hist, nameVars>>

Writers(p) == {r \in RecIds : process[r] = "alive" /\ output_path[r] = p}

\* a recording process creates its output file, or appends to it
FileWrite(p) ==
    /\ Writers(p) # {}
    /\ Tick
    /\ files[p] < lim.size
    /\ files' = [files EXCEPT ![p] = @ + 1]
    /\ UNCHANGED <<lim, guiVars, recVars, pipe, hist, nameVars>>

\* somebody removes the file, or truncates it
FileDelete(p) ==
    /\ files[p] >= 0
    /\ Tick
    /\ files' = [files EXCEPT ![p] = -1]
    /\ UNCHANGED <<lim, guiVars, recVars, pipe, hist, nameVars>>

FileTruncate(p) ==
    /\ files[p] > 0
    /\ Tick
    /\ files' = [files EXCEPT ![p] = 0]
    /\ UNCHANGED <<lim, guiVars, recVars, pipe, hist, nameVars>>

\* ------------------------------------------------------------------ specs
\* the state after MainWindow.__init__, with the limits of each scenario
NoName == [author |-> Missing, title |-> Missing, time |-> Now]
Solo ==
    [recs |-> OneRecorder, spawned |-> OneRecorder, size |-> MaxSize,
     steps |-> 0, metas |-> MetaChoices, lines |-> Lines,
     outcomes |-> MetaOutcomes, popen |-> {"ok", "fail"}]
Init == InitWith(Solo, {NoName})
InitMulti ==
    InitWith([recs |-> MaxRecorders, spawned |-> MaxSpawned, size |-> MultiSize,
              steps |-> MaxSteps, metas |-> MetaChoices, lines |-> Lines,
              outcomes |-> {"ok", "nonzero"}, popen |-> {"ok"}], {NoName})

Next ==
    \/ \E u \in URLs \cup {""}, dlg \in {"", "dir"} : StartRecording(u, dlg)
    \/ \E u \in URLs \cup {""} : StopRecording(u)
    \/ \E r \in RecIds : StopThisRecording(r)
    \/ StopWaitReturns
    \/ StopTimeout
    \/ CloseEvent
    \/ CloseNext
    \/ \E r \in RecIds : MonitorLoop(r)
    \/ \E r \in RecIds : MonitorRead(r)
    \/ \E r \in RecIds : MonitorPost(r)
    \/ \E r \in RecIds : MonitorComplete(r)
    \/ \E r \in RecIds : WatchStart(r)
    \/ \E r \in RecIds : WatchLoop(r)
    \/ \E r \in RecIds : WatchPoll(r)
    \/ \E r \in RecIds : ProcessExit(r)
    \/ \E r \in RecIds, line \in lim.lines : ProcessWrite(r, line)
    \/ \E p \in Paths : FileWrite(p)
    \/ \E p \in Paths : FileDelete(p)
    \/ \E p \in Paths : FileTruncate(p)

\* Scenario "file name": the metadata a backend may answer with, and the file
\* name get_metadata derives from it.
NameChars == {"A"} \cup Reserved
RECURSIVE StringsUpTo(_)
StringsUpTo(n) ==
    IF n = 0 THEN {<<>>}
    ELSE LET S == StringsUpTo(n - 1)
         IN  S \cup {Append(s, c) : s \in {x \in S : Len(x) = n - 1}, c \in NameChars}
NameInputs ==
    {[author |-> a, title |-> t, time |-> Now] :
        a \in StringsUpTo(MaxNameLen) \cup {Missing, MetaAB.author},
        t \in StringsUpTo(MaxTitleLen) \cup {Missing, MetaAB.title}}
InitName == InitWith(Solo, NameInputs)

\* lines 60-69 of get_metadata on the metadata drawn
GetMetadataName ==
    /\ nameOut = <<>>
    /\ nameOut' = DeriveFilename(nameIn, nameIn.time)
    /\ UNCHANGED <<lim, guiVars, recVars, pipe, files, steps, hist, nameIn>>

NextName == GetMetadataName

\* Scenario "scheduling": one recorder as in Spec, with the file growing to
\* MultiSize, under the scheduling the program runs with:
\*   - the two daemon threads are scheduled: a step they can take is taken;
\*   - the GUI thread inside stop() goes on: wait(timeout=5) returns or raises
\*     after 5 s, wait() returns once the process has exited, and closeEvent's
\*     loop goes on after a stop() has returned;
\*   - a process that was sent SIGKILL exits.
InitLive ==
    InitWith([recs |-> OneRecorder, spawned |-> OneRecorder, size |-> MultiSize,
              steps |-> 0, metas |-> MetaChoices, lines |-> Lines,
              outcomes |-> {"ok", "nonzero"}, popen |-> {"ok", "fail"}], {NoName})
Scheduling ==
    /\ \A r \in 1..OneRecorder :
          /\ WF_vars(MonitorLoop(r)) /\ WF_vars(MonitorRead(r))
          /\ WF_vars(MonitorPost(r)) /\ WF_vars(MonitorComplete(r))
          /\ WF_vars(WatchStart(r)) /\ WF_vars(WatchLoop(r)) /\ WF_vars(WatchPoll(r))
          /\ WF_vars("KILL" \in signals[r] /\ ProcessExit(r))
    /\ WF_vars(StopWaitReturns) /\ WF_vars(StopTimeout) /\ WF_vars(CloseNext)

Spec == Init /\ [][Next]_vars
\* the handlers are called for the one URL of the scenario, with a directory chosen
NextLive ==
    \/ \E u \in {"u1"}, dlg \in {"dir"} : StartRecording(u, dlg)
    \/ \E u \in {"u1"} : StopRecording(u)
    \/ \E r \in RecIds : StopThisRecording(r)
    \/ StopWaitReturns
    \/ StopTimeout
    \/ CloseEvent
    \/ CloseNext
    \/ \E r \in RecIds : MonitorLoop(r)
    \/ \E r \in RecIds : MonitorRead(r)
    \/ \E r \in RecIds : MonitorPost(r)
    \/ \E r \in RecIds : MonitorComplete(r)
    \/ \E r \in RecIds : WatchStart(r)
    \/ \E r \in RecIds : WatchLoop(r)
    \/ \E r \in RecIds : WatchPoll(r)
    \/ \E r \in RecIds : ProcessExit(r)
    \/ \E r \in RecIds, line \in lim.lines : ProcessWrite(r, line)
    \/ \E p \in Paths : FileWrite(p)
    \/ \E p \in Paths : FileDelete(p)
    \/ \E p \in Paths : FileTruncate(p)
SpecLive == InitLive /\ [][NextLive]_vars /\ Scheduling
SpecName == InitName /\ [][NextName]_vars
\* Scenario "several sessions": the handlers are called with a URL typed in and
\* a directory chosen
NextMulti ==
    \/ \E u \in URLs, dlg \in {"dir"} : StartRecording(u, dlg)
    \/ \E u \in URLs : StopRecording(u)
    \/ \E r \in RecIds : StopThisRecording(r)
    \/ StopWaitReturns
    \/ StopTimeout
    \/ CloseEvent
    \/ CloseNext
    \/ \E r \in RecIds : MonitorLoop(r)
    \/ \E r \in RecIds : MonitorRead(r)
    \/ \E r \in RecIds : MonitorPost(r)
    \/ \E r \in RecIds : MonitorComplete(r)
    \/ \E r \in RecIds : WatchStart(r)
    \/ \E r \in RecIds : WatchLoop(r)
    \/ \E r \in RecIds : WatchPoll(r)
    \/ \E r \in RecIds : ProcessExit(r)
    \/ \E r \in RecIds, line \in lim.lines : ProcessWrite(r, line)
    \/ \E p \in Paths : FileWrite(p)
    \/ \E p \in Paths : FileDelete(p)
    \/ \E p \in Paths : FileTruncate(p)
SpecMulti == InitMulti /\ [][NextMulti]_vars

\* ================================================================= claims
Created == 1..created
\* a session that has not reached a terminal state: its recorder is running
NonTerminal(r) == is_running[r]

\* C1: at most one non-terminal session exists per URL: a start for a URL whose
\* session is not terminal is rejected and leaves the registered session in place.
C1_AtMostOneLiveSessionPerUrl ==
    \A r1 \in Created, r2 \in Created :
        (r1 # r2 /\ url[r1] = url[r2]) => ~(NonTerminal(r1) /\ NonTerminal(r2))

\* C2: when a stop() that found the process alive has returned, the process has
\* exited; stop sent the graceful signal, and the forced kill only after it.
C2_StopReturnsAfterExit ==
    \A r \in Created :
        /\ hist[r].stopped = "returned" => (process[r] = "exited" /\ "TERM" \in signals[r])
        /\ "KILL" \in signals[r] => "TERM" \in signals[r]
\* a stop() has returned for a process that ignored the graceful signal
C2_Witness ==
    \E r \in Created : hist[r].stopped = "returned" /\ "KILL" \in signals[r]

\* C3: once closeEvent has completed, no process spawned by any start is alive.
C3_NoOrphanAfterShutdown ==
    gui.pc = "closed" => \A r \in Created : process[r] # "alive"

MetaFailures == {"nonzero", "badjson", "badshape", "exception"}
MetaErrors == {"meta_fetch_failed", "meta_parse_failed", "meta_error"}
C5_FailedMetadataSpawnsNothing ==
    \A r \in Created :
        hist[r].outcome \in MetaFailures =>
            /\ process[r] = "none" /\ signals[r] = {}
            /\ mon[r] = "none" /\ watch[r].pc = "none"
            /\ ~is_running[r] /\ ~hist[r].wasRecording
            /\ output_path[r] = <<>>
            /\ hist[r].lastStatus \in MetaErrors /\ hist[r].lastLog = hist[r].lastStatus
            /\ ~hist[r].metaReceived /\ ~hist[r].sizeEmitted
\* a recorder whose metadata could not be parsed, after stop was tried on it
C5_Witness ==
    \E r \in Created :
        /\ hist[r].outcome = "badjson"
        /\ report.op = "stop_recording" /\ report.known

\* C6 (as claimed): once the sampled size has been equal for StaleThreshold
\* consecutive polls, exactly one stall warning has been emitted.
C6_WarningAtFifthEqualSample ==
    \A r \in Created :
        /\ hist[r].stallWarn <= 1
        /\ hist[r].equalRun >= StaleThreshold => hist[r].stallWarn = 1
\* C6 (amended): the watcher emits one stall warning, at the poll where the
\* no-growth counter reaches StaleThreshold: the fifth consecutive poll whose
\* sample equals the size recorded by the poll before (0 before the first
\* poll). That is the sixth equal sample of a run (the fifth when the run is of
\* empty-file samples from the first poll on). The watcher ends with the
\* warning, so no further equal sample gives another one.
C6_OneWarningWhenCounterReachesThreshold ==
    \A r \in Created :
        /\ hist[r].stallWarn <= 1
        /\ hist[r].stallWarn = 1 <=> watch[r].no_growth_count >= StaleThreshold
        /\ hist[r].stallWarn = 1 => (watch[r].pc = "done" /\ hist[r].equalRun >= StaleThreshold)
        /\ hist[r].equalRun >= StaleThreshold + 1 => hist[r].stallWarn = 1
\* the warning came with the sixth equal sample of a file that is not empty
C6_Witness ==
    \E r \in Created :
        hist[r].stallWarn = 1 /\ hist[r].equalRun = StaleThreshold + 1 /\ hist[r].lastSample > 0

C8_FinalCheckBeforeTerminal ==
    \A r \in Created :
        (hist[r].wasRecording /\ ~is_running[r]) => hist[r].finalCheck # "none"

\* C9: metadata_received is emitted before the process is spawned and before
\* any size_changed; no size_changed without metadata_received.
C9_MetadataBeforeSpawnAndSize ==
    \A r \in Created :
        (process[r] # "none" \/ hist[r].sizeEmitted \/ hist[r].wasRecording) =>
            (hist[r].metaReceived /\ hist[r].metaFirst)
\* a session that has emitted size_changed
C9_Witness ==
    \E r \in Created : hist[r].sizeEmitted /\ hist[r].metaReceived /\ process[r] = "alive"

\* C10 (as claimed): for author A/B, title T:1 and time 2024-01-01 10:00 the
\* file name is [A_B] 2024-01-01 10:00 T_1.ts
ExampleIn == [author |-> MetaAB.author, title |-> MetaAB.title, time |-> Now]
C10_ExampleAsClaimed ==
    (nameIn = ExampleIn /\ nameOut # <<>>) =>
        nameOut = <<"[","A","_","B","]"," ">> \o Now \o <<" ","T","_","1",".","t","s">>
\* C10 (amended): the file name is [author] YYYY-MM-DD HH:MM title.ts with every
\* reserved character of the whole name replaced by _, the colon of the time
\* included: the example gives [A_B] 2024-01-01 10_00 T_1.ts
C10_WholeNameSanitized ==
    nameOut # <<>> =>
        LET a == IF nameIn.author = Missing THEN Unknown ELSE nameIn.author
            t == IF nameIn.title = Missing THEN Untitled ELSE nameIn.title
            raw == <<"[">> \o a \o <<"]", " ">> \o nameIn.time \o <<" ">> \o t \o <<".", "t", "s">>
        IN  /\ Len(nameOut) = Len(a) + Len(t) + Len(nameIn.time) + 7
            /\ \A i \in 1..Len(nameOut) :
                 /\ nameOut[i] \notin {"<", ">", ":", "\"", "/", "\\", "|", "?", "*"}
                 /\ nameOut[i] = raw[i] \/ (nameOut[i] = "_" /\ raw[i] # "_")
                 /\ nameOut[i] # raw[i] =>
                      raw[i] \in {"<", ">", ":", "\"", "/", "\\", "|", "?", "*"}
            /\ nameIn = ExampleIn =>
                 nameOut = <<"[","A","_","B","]"," ","2","0","2","4","-","0","1","-","0","1",
                             " ","1","0","_","0","0"," ","T","_","1",".","t","s">>
\* the file name of the example has been derived
C10_Witness ==
    nameIn = ExampleIn /\ nameOut # <<>>

\* C11: stop is idempotent. A stop() called on a session that a stop() has
\* already stopped returns at once: it leaves the recorder, its process, its
\* threads and the files as they are, sends no signal and emits no status and
\* no log message. (While a stop() waits for the process the GUI thread is
\* inside it, so no second stop() can begin before the first has returned.)
Stopped(r) == hist[r].finalCheck # "none"
C11_StopOnStoppedSessionIsNoOp ==
    [][\A r \in RecIds :
          (Stopped(r) /\ (StopThisRecording(r) \/
                          \E u \in URLs : recorders[u] = r /\ StopRecording(u))) =>
              /\ gui' = GuiIdle
              /\ UNCHANGED <<recVars, pipe, files, hist, recorders, regOrder, created>>]_vars
\* no stop() waits for the process of a session that a stop() has stopped
C11_Witness ==
    \E r \in Created :
        /\ Stopped(r) /\ gui.pc = "idle"
        /\ report.op = "stop_this_recording" /\ startEnabled /\ ~stopEnabled

\* C12: when the output file does not exist at the watcher's first check, the
\* watcher warns once and keeps polling: while the session runs the watcher has
\* not ended, so a file created later is sampled and gives size_changed.
C12_WatcherPollsAfterAbsence ==
    \A r \in Created :
        (hist[r].lastStatus = "warn_not_created" /\ is_running[r]) => watch[r].pc # "done"

\* C13: the watcher runs until the session is stopped; a stall warning does not
\* end it: while the session runs after a stall warning the watcher has not
\* ended, so renewed growth is sampled and a later stall warned of again.
C13_WatcherSurvivesStall ==
    \A r \in Created :
        (hist[r].stallWarn > 0 /\ is_running[r]) => watch[r].pc # "done"

\* C14 (as claimed): at a poll whose sample is greater than the previous one the
\* no-growth counter is reset to 0; at every other poll (sample equal to or
\* smaller than the previous one) the counter does not decrease.
C14_CounterDropsOnlyOnGrowth ==
    [][\A r \in RecIds :
          WatchPoll(r) =>
              IF files[output_path[r]] > watch[r].last_size
              THEN watch'[r].no_growth_count = 0
              ELSE watch'[r].no_growth_count >= watch[r].no_growth_count]_vars
\* C14 (amended): at a poll whose sample differs from the size the previous poll
\* recorded (0 before the first poll), greater or smaller, the counter is reset
\* to 0; at a poll whose sample equals it the counter goes up by one; a poll
\* that finds the file deleted leaves the counter as it is.
C14_CounterResetsOnAnyChange ==
    [][\A r \in RecIds :
          WatchPoll(r) =>
              LET sample == files[output_path[r]]
                  before == watch[r].no_growth_count
                  after == watch'[r].no_growth_count
              IN  /\ sample = -1 => after = before
                  /\ (sample # -1 /\ sample # watch[r].last_size) => after = 0
                  /\ (sample # -1 /\ sample = watch[r].last_size) => after = before + 1]_vars
\* the watcher has sampled a truncated file: the sample before was not empty,
\* this one is, and the counter stands at 0
C14_Witness ==
    \E r \in Created :
        /\ hist[r].samples >= 2 /\ hist[r].lastSample = 0 /\ ~hist[r].allInc
        /\ watch[r].pc = "loop" /\ watch[r].last_size = 0 /\ watch[r].no_growth_count = 0

\* a stop() has acted on the session: it waits for its process, or has stopped it
StopRequested(r) == Stopped(r) \/ (gui.pc \in {"wait", "killwait"} /\ gui.r = r)

\* C15: when the process exits by itself while the session runs and no stop is
\* requested, the output reader emits "completed" and clears is_running; a
\* session whose reader has ended without a stop has emitted "completed", is
\* not running and has not emitted "stopped".
C15_NaturalExitCompletes ==
    /\ [](\A r \in RecIds :
            (mon[r] = "done" /\ ~StopRequested(r)) =>
                /\ hist[r].completed /\ ~is_running[r]
                /\ hist[r].lastStatus # "stopped" /\ hist[r].stopped = "no")
    /\ \A r \in RecIds :
          (process[r] = "exited" /\ is_running[r] /\ ~StopRequested(r))
              ~> (hist[r].completed \/ StopRequested(r))
\* the process has exited by itself and the reader has reported the completion
C15_Witness ==
    \E r \in Created :
        /\ process[r] = "exited" /\ signals[r] = {} /\ ~StopRequested(r)
        /\ hist[r].completed /\ hist[r].lastStatus = "completed" /\ ~is_running[r]

\* C17: after stop() was called on a session whose process was alive, both
\* threads end: the output reader once the process has exited, the file
\* watcher at its next poll.
C17_StopEndsBothThreads ==
    \A r \in RecIds :
        hist[r].stopped # "no" ~> (mon[r] = "done" /\ watch[r].pc = "done")
\* a stopped session whose threads have both ended, the watcher by seeing the flag
C17_Witness ==
    \E r \in Created :
        /\ hist[r].stopped = "returned" /\ mon[r] = "done" /\ watch[r].pc = "done"
        /\ hist[r].stallWarn = 0 /\ hist[r].sizeEmitted /\ files[output_path[r]] > 0

\* C16: a session emits one terminal status, and it is its last status: never
\* both "stopped" and "completed", and no status after the terminal one.
TerminalEmitted(r) == Stopped(r) \/ hist[r].completed
C16_OneTerminalStatusLast ==
    \A r \in Created :
        /\ ~(Stopped(r) /\ hist[r].completed)
        /\ TerminalEmitted(r) => hist[r].lastStatus \in {"stopped", "completed"}

\* C18: a recorder whose process is alive has is_running set: the flag is
\* cleared only once the process has exited, or when Popen failed.
C18_LiveProcessIsRunning ==
    \A r \in RecIds :
        /\ process[r] = "alive" => is_running[r]
        /\ process[r] = "none" => ~is_running[r]
\* closeEvent has returned after stopping a session that had to be killed
C18_Witness ==
    /\ gui.pc = "closed"
    /\ \E r \in Created : process[r] = "exited" /\ ~is_running[r] /\ "KILL" \in signals[r]

\* C19: the file watcher only detects. No step of it, its warnings included,
\* sends a signal, changes is_running or the process, or moves the GUI thread
\* or the output reader; signals are sent by stop() alone.
C19_WatcherOnlyDetects ==
    [][/\ \A r \in RecIds :
            (WatchStart(r) \/ WatchLoop(r) \/ WatchPoll(r)) =>
                UNCHANGED <<signals, is_running, process, gui, mon, files>>
       /\ signals' # signals => gui'.pc \in {"wait", "killwait"}]_vars
\* the watcher has ended with a stall warning and the session records on
C19_Witness ==
    \E r \in Created :
        /\ hist[r].lastStatus = "warn_stall" /\ watch[r].pc = "done"
        /\ process[r] = "alive" /\ is_running[r] /\ signals[r] = {}

\* C20: sessions are isolated. A stop() on recorder a, and every step of a's
\* output reader and file watcher, leave unchanged the running flag, the
\* process and its signals, the output path and the threads of every recorder
\* of another URL: a step that changes one of these for recorder b is no step
\* of a recorder a of another URL.
StepOf(a) ==
    \/ StopThisRecording(a)
    \/ \E u \in URLs : recorders[u] = a /\ StopRecording(u)
    \/ (gui.r = a /\ (StopWaitReturns \/ StopTimeout))
    \/ MonitorLoop(a) \/ MonitorRead(a) \/ MonitorPost(a) \/ MonitorComplete(a)
    \/ WatchStart(a) \/ WatchLoop(a) \/ WatchPoll(a)
C20_SessionsIsolated ==
    [][\A a \in RecIds, b \in RecIds :
          (/\ a <= created /\ b <= created /\ url[a] # url[b]
           /\ \/ is_running'[b] # is_running[b] \/ process'[b] # process[b]
              \/ signals'[b] # signals[b] \/ output_path'[b] # output_path[b]
              \/ watch'[b] # watch[b] \/ mon'[b] # mon[b] \/ hist'[b] # hist[b])
          => ~StepOf(a)]_vars
\* a session was stopped while a session of another URL records
C20_Witness ==
    \E a \in Created, b \in Created :
        /\ url[a] # url[b] /\ hist[a].stopped = "returned"
        /\ process[b] = "alive" /\ is_running[b] /\ signals[b] = {}

====
